---- MODULE Spec2Model ----
(***************************************************************************)
(* Model of demucs/pretrained.py: the catalog parser, the modern           *)
(* get_model resolver, the legacy load_pretrained dispatch, the builders   *)
(* demucs / tasnet / demucs_unittest and the state loader _load_state.     *)
(* Python strings are TLA+ strings; strip, startswith, split and slicing   *)
(* are computed character by character, as Python computes them.           *)
(***************************************************************************)
EXTENDS Integers, Sequences, FiniteSets, TLC

(***************************************************************************)
(* Bounds of the model.                                                    *)
(***************************************************************************)
\* the longest manifest, in lines separated by "\n"
MaxLines == 3

(***************************************************************************)
(* Program constants.                                                      *)
(***************************************************************************)
ROOT_URL == "https://dl.fbaipublicfiles.com/demucs/mdx_final/"

ROOT == "https://dl.fbaipublicfiles.com/demucs/v3.0/"

PRETRAINED_MODELS ==
   [ demucs           |-> "e07c671f",
     demucs48_hq      |-> "28a1282c",
     demucs_extra     |-> "3646af93",
     demucs_quantized |-> "07afea75",
     tasnet           |-> "beb46fac",
     tasnet_extra     |-> "df3777b2",
     demucs_unittest  |-> "09ebc15f" ]

\* default of the parameter channels of demucs()
DefaultChannels == 64
\* channels passed by load_pretrained for demucs48_hq
HqChannels == 48
\* channels of the model built by demucs_unittest
UnittestChannels == 4
\* DiffQuantizer(model, group_size=8, min_size=1)
GroupSize == 8
MinSize == 1

(***************************************************************************)
(* Python string operations.                                               *)
(***************************************************************************)
Whitespace == {" ", "\t", "\n", "\r"}

\* s[i-1] in Python: the i-th character of s
CharAt(s, i) == SubSeq(s, i, i)

\* str.strip(): drop leading and trailing whitespace
Strip(s) ==
   LET keep == {i \in 1..Len(s) : CharAt(s, i) \notin Whitespace}
   IN  IF keep = {} THEN ""
       ELSE LET lo == CHOOSE i \in keep : \A j \in keep : i <= j
                hi == CHOOSE i \in keep : \A j \in keep : j <= i
            IN  SubSeq(s, lo, hi)

\* str.startswith(p)
StartsWith(s, p) ==
   /\ Len(p) <= Len(s)
   /\ SubSeq(s, 1, Len(p)) = p

\* index of the first occurrence of character c in s, 0 when there is none
FirstIndex(s, c) ==
   LET at == {i \in 1..Len(s) : CharAt(s, i) = c}
   IN  IF at = {} THEN 0 ELSE CHOOSE i \in at : \A j \in at : i <= j

\* s.split(c, 1)[0]
SplitHead(s, c) ==
   IF FirstIndex(s, c) = 0 THEN s ELSE SubSeq(s, 1, FirstIndex(s, c) - 1)

\* s.split(c, 1)[1], used only when c occurs in s
SplitTail(s, c) ==
   SubSeq(s, FirstIndex(s, c) + 1, Len(s))

\* text.split('\n'): a sequence of at least one line
RECURSIVE SplitNL(_)
SplitNL(text) ==
   IF FirstIndex(text, "\n") = 0 THEN <<text>>
   ELSE <<SplitHead(text, "\n")>> \o SplitNL(SplitTail(text, "\n"))

\* s[:n]
Prefix(s, n) == IF Len(s) <= n THEN s ELSE SubSeq(s, 1, n)

(***************************************************************************)
(* _parse_remote_files: the tests and assignments of one loop iteration.   *)
(***************************************************************************)
IsComment(line) == StartsWith(line, "#")

IsRootLine(line) == StartsWith(line, "root:")

\* root = line.split(':', 1)[1].strip()
RootOf(line) == Strip(SplitTail(line, ":"))

\* sig = line.split('-', 1)[0]
SigOf(line) == SplitHead(line, "-")

\* EntryURL with the path prefix left out
EntryURLNoRoot(rt, line) == ROOT_URL \o line

\* models[sig] = ROOT_URL + root + line
EntryURL(rt, line) == ROOT_URL \o rt \o line

\* SigIsNew with the test dropped
SigNeverChecked(sig, dict) == TRUE

\* assert sig not in models
SigIsNew(sig, dict) == sig \notin DOMAIN dict

\* the dictionary after dict[sig] = url
Store(dict, sig, url) ==
   [k \in (DOMAIN dict) \cup {sig} |-> IF k = sig THEN url ELSE dict[k]]

EmptyDict == [k \in {} |-> ""]

(***************************************************************************)
(* The manifests the parser is run on: every text of at most MaxLines      *)
(* lines drawn from ManifestLines, joined by "\n".                         *)
(***************************************************************************)
ManifestLines ==
   { "", " #x", "root: m/", "root:", "a-1", "a-2", " b-1 ", "b" }

RECURSIVE JoinNL(_)
JoinNL(ls) ==
   IF Len(ls) = 0 THEN ""
   ELSE IF Len(ls) = 1 THEN ls[1]
   ELSE ls[1] \o "\n" \o JoinNL(Tail(ls))

Manifests ==
   { JoinNL(ls) : ls \in UNION { [1..n -> ManifestLines] : n \in 0..MaxLines } }

(***************************************************************************)
(* The legacy factory: pure parts.                                         *)
(***************************************************************************)
\* the arguments a builder runs with
Builder(f, pretrained, extra, quantized, hq, channels) ==
   [ fn |-> f, pretrained |-> pretrained, extra |-> extra,
     quantized |-> quantized, hq |-> hq, channels |-> channels ]

NoBuilder == Builder("none", FALSE, FALSE, FALSE, FALSE, 0)

\* The module defines demucs_unittest twice.  A call looks the name up in
\* the module namespace when it runs, where the later def has replaced the
\* earlier one.
ModuleDefs ==
   << [ line |-> 34,  arch |-> "HDemucs", loads |-> FALSE ],
      [ line |-> 179, arch |-> "Demucs",  loads |-> TRUE ] >>

demucs_unittest == ModuleDefs[Len(ModuleDefs)]

\* name in PRETRAINED_MODELS
is_pretrained(name) == name \in DOMAIN PRETRAINED_MODELS

\* ROOT + name + "-" + sig[:8] + ".th"
get_url(name) ==
   ROOT \o name \o "-" \o Prefix(PRETRAINED_MODELS[name], 8) \o ".th"

\* the names load_pretrained tests for, in order
Families ==
   { "demucs", "demucs48_hq", "demucs_extra", "demucs_quantized",
     "demucs_unittest", "tasnet", "tasnet_extra" }

\* the builder call load_pretrained makes for a family name
Dispatch(name) ==
   CASE name = "demucs" ->
           Builder("demucs", TRUE, FALSE, FALSE, FALSE, DefaultChannels)
     [] name = "demucs48_hq" ->
           Builder("demucs", TRUE, FALSE, FALSE, TRUE, HqChannels)
     [] name = "demucs_extra" ->
           Builder("demucs", TRUE, TRUE, FALSE, FALSE, DefaultChannels)
     [] name = "demucs_quantized" ->
           Builder("demucs", TRUE, FALSE, TRUE, FALSE, DefaultChannels)
     [] name = "demucs_unittest" ->
           Builder("demucs_unittest", TRUE, FALSE, FALSE, FALSE, UnittestChannels)
     [] name = "tasnet" ->
           Builder("tasnet", TRUE, FALSE, FALSE, FALSE, 0)
     [] name = "tasnet_extra" ->
           Builder("tasnet", TRUE, TRUE, FALSE, FALSE, 0)

\* DemucsOptionsWithoutPretrained with hq forgotten, as in the error message
OptionsWithoutPretrainedNoHq(b) == ~b.pretrained /\ (b.extra \/ b.quantized)

\* not pretrained and (extra or quantized or hq)
DemucsOptionsWithoutPretrained(b) ==
   ~b.pretrained /\ (b.extra \/ b.quantized \/ b.hq)

\* not pretrained and extra
TasnetOptionsWithoutPretrained(b) == ~b.pretrained /\ b.extra

\* OptionCount with hq left out of the sum
OptionCountNoHq(b) ==
   (IF b.extra THEN 1 ELSE 0) + (IF b.quantized THEN 1 ELSE 0)

\* sum([extra, quantized, hq])
OptionCount(b) ==
   (IF b.extra THEN 1 ELSE 0) + (IF b.quantized THEN 1 ELSE 0)
      + (IF b.hq THEN 1 ELSE 0)

\* ChannelPart with the channel count always appended
ChannelPartAlways(channels) == ToString(channels)

\* if channels != 64: name += str(channels)
ChannelPart(channels) ==
   IF channels # DefaultChannels THEN ToString(channels) ELSE ""

\* the name demucs() hands to _load_state
DemucsName(b) ==
   "demucs" \o ChannelPart(b.channels)
      \o (IF b.quantized THEN "_quantized" ELSE "")
      \o (IF b.extra THEN "_extra" ELSE "")
      \o (IF b.hq THEN "_hq" ELSE "")

\* the name tasnet() hands to _load_state
TasnetName(b) == IF b.extra THEN "tasnet_extra" ELSE "tasnet"

\* a model as its constructor leaves it: no state applied, training mode
NewModel(arch, channels) ==
   [ arch |-> arch, channels |-> channels, weights |-> "", evalMode |-> FALSE ]

NoModel == NewModel("none", 0)

\* DiffQuantizer(model, group_size=8, min_size=1)
NewQuantizer ==
   [ state |-> "attached", group_size |-> GroupSize, min_size |-> MinSize ]

NoQuantizer == [ state |-> "none", group_size |-> 0, min_size |-> 0 ]

(***************************************************************************)
(* The inputs of the calls.                                                *)
(***************************************************************************)
\* names given to get_model
ModelNames == { "demucs_unittest", "mdx_extra_q" }

\* repo: None, an existing directory, a path that is no directory
Repos == { "None", "dir", "nodir" }

\* names given to load_pretrained
PretrainedNames == Families \cup { "mdx_extra_q", "demucs48" }

\* channel counts given to demucs()
ChannelCounts == { 32, HqChannels, DefaultChannels }

\* what torch.hub.load_state_dict_from_url(url, check_hash=True) does
FetchResults == { "ok", "hash_mismatch", "transport_error" }

(***************************************************************************)
(* State.                                                                  *)
(***************************************************************************)
VARIABLES
   pc,         \* the statement about to run
   call,       \* the call made by the caller: function, name, repo
   b,          \* the arguments of the running builder
   artifact,   \* the name handed to _load_state
   url,        \* the url _load_state derived
   fetched,    \* what the fetch ended in, "" before it
   state,      \* the state record fetched, named by its url
   model,      \* the model instance under construction
   quantizer,  \* the DiffQuantizer around the model
   outcome,    \* how the call ended
   events,     \* what the call has done so far, in order
   lines,      \* _parse_remote_files: the lines of the manifest
   idx,        \* _parse_remote_files: the line the loop is at
   root,       \* _parse_remote_files: root
   models,     \* _parse_remote_files: models
   catalog     \* the dictionary _parse_remote_files returned, if it did

vars ==
   << pc, call, b, artifact, url, fetched, state, model, quantizer, outcome, events,
      lines, idx, root, models, catalog >>

parseVars == << lines, idx, root, models, catalog >>

loadVars == << b, artifact, url, fetched, state, model, quantizer >>

Init ==
   /\ pc = "idle"
   /\ call = [ entry |-> "none", name |-> "", repo |-> "None" ]
   /\ b = NoBuilder
   /\ artifact = ""
   /\ url = ""
   /\ fetched = ""
   /\ state = ""
   /\ model = NoModel
   /\ quantizer = NoQuantizer
   /\ outcome = "none"
   /\ events = <<>>
   /\ lines = <<>>
   /\ idx = 0
   /\ root = ""
   /\ models = EmptyDict
   /\ catalog = <<>>

\* the call ends by raising err
Raise(err) ==
   /\ pc' = "done"
   /\ outcome' = err

(***************************************************************************)
(* The calls a caller can make.                                            *)
(***************************************************************************)
CallGetModel ==
   /\ pc = "idle"
   /\ \E n \in ModelNames, r \in Repos :
         call' = [ entry |-> "get_model", name |-> n, repo |-> r ]
   /\ pc' = "get_model"
   /\ UNCHANGED << outcome, events >>
   /\ UNCHANGED loadVars
   /\ UNCHANGED parseVars

CallLoadPretrained ==
   /\ pc = "idle"
   /\ \E n \in PretrainedNames :
         call' = [ entry |-> "load_pretrained", name |-> n, repo |-> "None" ]
   /\ pc' = "load_pretrained"
   /\ UNCHANGED << outcome, events >>
   /\ UNCHANGED loadVars
   /\ UNCHANGED parseVars

CallDemucs ==
   /\ pc = "idle"
   /\ call' = [ entry |-> "demucs", name |-> "", repo |-> "None" ]
   /\ \E p \in BOOLEAN, e \in BOOLEAN, q \in BOOLEAN, h \in BOOLEAN,
         c \in ChannelCounts :
         b' = Builder("demucs", p, e, q, h, c)
   /\ pc' = "demucs"
   /\ events' = << "call:demucs" >>
   /\ UNCHANGED << artifact, url, fetched, state, model, quantizer, outcome >>
   /\ UNCHANGED parseVars

CallTasnet ==
   /\ pc = "idle"
   /\ call' = [ entry |-> "tasnet", name |-> "", repo |-> "None" ]
   /\ \E p \in BOOLEAN, e \in BOOLEAN :
         b' = Builder("tasnet", p, e, FALSE, FALSE, 0)
   /\ pc' = "tasnet"
   /\ events' = << "call:tasnet" >>
   /\ UNCHANGED << artifact, url, fetched, state, model, quantizer, outcome >>
   /\ UNCHANGED parseVars

CallDemucsUnittest ==
   /\ pc = "idle"
   /\ call' = [ entry |-> "demucs_unittest", name |-> "", repo |-> "None" ]
   /\ \E p \in BOOLEAN :
         b' = Builder("demucs_unittest", p, FALSE, FALSE, FALSE, UnittestChannels)
   /\ pc' = "demucs_unittest"
   /\ events' = << "call:demucs_unittest" >>
   /\ UNCHANGED << artifact, url, fetched, state, model, quantizer, outcome >>
   /\ UNCHANGED parseVars

CallParseRemoteFiles ==
   /\ pc = "idle"
   /\ call' = [ entry |-> "_parse_remote_files", name |-> "", repo |-> "None" ]
   /\ pc' = "parse_read"
   /\ UNCHANGED << outcome, events >>
   /\ UNCHANGED loadVars
   /\ UNCHANGED parseVars

(***************************************************************************)
(* _parse_remote_files.                                                    *)
(***************************************************************************)
\* remote_file_list.read_text().split('\n'), root = '', models = {}
ParseRead ==
   /\ pc = "parse_read"
   /\ \E text \in Manifests : lines' = SplitNL(text)
   /\ idx' = 1
   /\ root' = ""
   /\ models' = EmptyDict
   /\ events' = Append(events, "parse")
   /\ pc' = "parse_loop"
   /\ UNCHANGED << call, outcome, catalog >>
   /\ UNCHANGED loadVars

\* one iteration of the for loop
ParseLine ==
   /\ pc = "parse_loop"
   /\ idx <= Len(lines)
   /\ LET line == Strip(lines[idx])
      IN  IF IsComment(line)
          THEN /\ idx' = idx + 1
               /\ pc' = pc
               /\ UNCHANGED << root, models, outcome >>
          ELSE IF IsRootLine(line)
          THEN /\ root' = RootOf(line)
               /\ idx' = idx + 1
               /\ pc' = pc
               /\ UNCHANGED << models, outcome >>
          ELSE IF ~SigIsNew(SigOf(line), models)
          THEN /\ Raise("AssertionError")
               /\ UNCHANGED << root, models, idx >>
          ELSE /\ models' = Store(models, SigOf(line), EntryURL(root, line))
               /\ idx' = idx + 1
               /\ pc' = pc
               /\ UNCHANGED << root, outcome >>
   /\ UNCHANGED << call, events, lines, catalog >>
   /\ UNCHANGED loadVars

\* return models; in get_model, RemoteRepo(models) and BagOnlyRepo follow
ParseReturn ==
   /\ pc = "parse_loop"
   /\ idx > Len(lines)
   /\ catalog' = << models >>
   /\ IF call.entry = "get_model"
      THEN /\ events' = events \o << "RemoteRepo", "BagOnlyRepo" >>
           /\ pc' = "gm_resolve"
           /\ UNCHANGED outcome
      ELSE /\ pc' = "done"
           /\ outcome' = "returned"
           /\ UNCHANGED events
   /\ UNCHANGED << call, lines, idx, root, models >>
   /\ UNCHANGED loadVars

(***************************************************************************)
(* get_model.                                                              *)
(***************************************************************************)
\* if name == 'demucs_unittest': return demucs_unittest()
GetModelUnittest ==
   /\ pc = "get_model"
   /\ call.name = "demucs_unittest"
   /\ b' = Builder("demucs_unittest", demucs_unittest.loads, FALSE, FALSE,
                   FALSE, UnittestChannels)
   /\ events' = Append(events, "call:demucs_unittest")
   /\ pc' = "demucs_unittest"
   /\ UNCHANGED << call, artifact, url, fetched, state, model, quantizer, outcome >>
   /\ UNCHANGED parseVars

\* repo is None: models = _parse_remote_files(REMOTE_ROOT / 'files.txt')
GetModelRemote ==
   /\ pc = "get_model"
   /\ call.name # "demucs_unittest"
   /\ call.repo = "None"
   /\ pc' = "parse_read"
   /\ UNCHANGED << call, outcome, events >>
   /\ UNCHANGED loadVars
   /\ UNCHANGED parseVars

\* if not repo.is_dir(): fatal(...)
GetModelNoDirectory ==
   /\ pc = "get_model"
   /\ call.name # "demucs_unittest"
   /\ call.repo = "nodir"
   /\ Raise("fatal")
   /\ UNCHANGED << call, events >>
   /\ UNCHANGED loadVars
   /\ UNCHANGED parseVars

\* model_repo = LocalRepo(repo); bag_repo = BagOnlyRepo(repo, model_repo)
GetModelLocal ==
   /\ pc = "get_model"
   /\ call.name # "demucs_unittest"
   /\ call.repo = "dir"
   /\ events' = events \o << "LocalRepo", "BagOnlyRepo" >>
   /\ pc' = "gm_resolve"
   /\ UNCHANGED << call, outcome >>
   /\ UNCHANGED loadVars
   /\ UNCHANGED parseVars

\* any_repo = AnyModelRepo(model_repo, bag_repo); model = any_repo.get_model(name)
\* The repository either hands back a loaded model, in whatever mode it left
\* it, or raises ModelLoadingError.
GetModelResolve ==
   /\ pc = "gm_resolve"
   /\ events' = events \o << "AnyModelRepo", "repo_get_model" >>
   /\ \E found \in BOOLEAN, mode \in BOOLEAN :
         IF found
         THEN /\ model' = [ arch |-> "repo", channels |-> 0,
                            weights |-> "repo:" \o call.name,
                            evalMode |-> mode ]
              /\ pc' = "gm_eval"
              /\ UNCHANGED outcome
         ELSE /\ Raise("ModelLoadingError")
              /\ UNCHANGED model
   /\ UNCHANGED << call, b, artifact, url, fetched, state, quantizer >>
   /\ UNCHANGED parseVars

\* model.eval()
GetModelEval ==
   /\ pc = "gm_eval"
   /\ model' = [ model EXCEPT !.evalMode = TRUE ]
   /\ events' = Append(events, "eval")
   /\ pc' = "return"
   /\ UNCHANGED << call, b, artifact, url, fetched, state, quantizer, outcome >>
   /\ UNCHANGED parseVars

(***************************************************************************)
(* load_pretrained.                                                        *)
(***************************************************************************)
\* the if / elif chain: one builder call for a family name
LoadPretrainedDispatch ==
   /\ pc = "load_pretrained"
   /\ call.name \in Families
   /\ b' = Dispatch(call.name)
   /\ events' = Append(events, "call:" \o b'.fn)
   /\ pc' = b'.fn
   /\ UNCHANGED << call, artifact, url, fetched, state, model, quantizer, outcome >>
   /\ UNCHANGED parseVars

\* LoadPretrainedInvalid falling back to the default family
LoadPretrainedFallback ==
   /\ pc = "load_pretrained"
   /\ call.name \notin Families
   /\ b' = Dispatch("demucs")
   /\ events' = Append(events, "call:" \o b'.fn)
   /\ pc' = b'.fn
   /\ UNCHANGED << call, artifact, url, fetched, state, model, quantizer, outcome >>
   /\ UNCHANGED parseVars

\* else: raise ValueError(f"Invalid pretrained name {name}")
LoadPretrainedInvalid ==
   /\ pc = "load_pretrained"
   /\ call.name \notin Families
   /\ Raise("ValueError")
   /\ UNCHANGED << call, events >>
   /\ UNCHANGED loadVars
   /\ UNCHANGED parseVars

(***************************************************************************)
(* demucs.                                                                 *)
(***************************************************************************)
\* raise ValueError("if extra or quantized is True, pretrained must be True.")
DemucsRejectOptions ==
   /\ pc = "demucs"
   /\ DemucsOptionsWithoutPretrained(b)
   /\ Raise("ValueError")
   /\ UNCHANGED << call, events >>
   /\ UNCHANGED loadVars
   /\ UNCHANGED parseVars

\* model = Demucs(sources=SOURCES, channels=channels)
DemucsConstruct ==
   /\ pc = "demucs"
   /\ ~DemucsOptionsWithoutPretrained(b)
   /\ model' = NewModel("Demucs", b.channels)
   /\ events' = Append(events, "construct")
   /\ pc' = IF b.pretrained THEN "demucs_pretrained" ELSE "return"
   /\ UNCHANGED << call, b, artifact, url, fetched, state, quantizer, outcome >>
   /\ UNCHANGED parseVars

\* raise ValueError("Only one of extra, quantized, hq, can be True.")
DemucsRejectCombination ==
   /\ pc = "demucs_pretrained"
   /\ OptionCount(b) > 1
   /\ Raise("ValueError")
   /\ UNCHANGED << call, events >>
   /\ UNCHANGED loadVars
   /\ UNCHANGED parseVars

\* the quantizer, if asked for, and the name; then _load_state
DemucsLoad ==
   /\ pc = "demucs_pretrained"
   /\ OptionCount(b) <= 1
   /\ quantizer' = IF b.quantized THEN NewQuantizer ELSE NoQuantizer
   /\ events' = IF b.quantized THEN Append(events, "quantizer") ELSE events
   /\ artifact' = DemucsName(b)
   /\ pc' = "load_state"
   /\ UNCHANGED << call, b, url, fetched, state, model, outcome >>
   /\ UNCHANGED parseVars

(***************************************************************************)
(* tasnet.                                                                 *)
(***************************************************************************)
\* raise ValueError("if extra is True, pretrained must be True.")
TasnetRejectOptions ==
   /\ pc = "tasnet"
   /\ TasnetOptionsWithoutPretrained(b)
   /\ Raise("ValueError")
   /\ UNCHANGED << call, events >>
   /\ UNCHANGED loadVars
   /\ UNCHANGED parseVars

\* model = ConvTasNet(X=10, sources=SOURCES)
TasnetConstruct ==
   /\ pc = "tasnet"
   /\ ~TasnetOptionsWithoutPretrained(b)
   /\ model' = NewModel("ConvTasNet", 0)
   /\ events' = Append(events, "construct")
   /\ pc' = IF b.pretrained THEN "tasnet_pretrained" ELSE "return"
   /\ UNCHANGED << call, b, artifact, url, fetched, state, quantizer, outcome >>
   /\ UNCHANGED parseVars

\* the name; then _load_state(name, model)
TasnetLoad ==
   /\ pc = "tasnet_pretrained"
   /\ artifact' = TasnetName(b)
   /\ pc' = "load_state"
   /\ UNCHANGED << call, b, url, fetched, state, model, quantizer, outcome, events >>
   /\ UNCHANGED parseVars

(***************************************************************************)
(* demucs_unittest, as the name is bound when it is called.                *)
(***************************************************************************)
\* the model, and _load_state('demucs_unittest', model) if pretrained
UnittestConstruct ==
   /\ pc = "demucs_unittest"
   /\ model' = NewModel(demucs_unittest.arch, b.channels)
   /\ events' = Append(events, "construct")
   /\ IF demucs_unittest.loads /\ b.pretrained
      THEN /\ artifact' = "demucs_unittest"
           /\ pc' = "load_state"
      ELSE /\ pc' = "return"
           /\ UNCHANGED artifact
   /\ UNCHANGED << call, b, url, fetched, state, quantizer, outcome >>
   /\ UNCHANGED parseVars

(***************************************************************************)
(* _load_state.                                                            *)
(***************************************************************************)
\* url = get_url(name): PRETRAINED_MODELS[name] raises KeyError
LoadStateUrl ==
   /\ pc = "load_state"
   /\ IF is_pretrained(artifact)
      THEN /\ url' = get_url(artifact)
           /\ pc' = "ls_fetch"
           /\ UNCHANGED outcome
      ELSE /\ Raise("KeyError")
           /\ UNCHANGED url
   /\ UNCHANGED << call, b, artifact, fetched, state, model, quantizer, events >>
   /\ UNCHANGED parseVars

\* LoadStateFetch with a failed fetch swallowed and an empty state applied
LoadStateFetchSwallow ==
   /\ pc = "ls_fetch"
   /\ events' = Append(events, "fetch")
   /\ \E r \in FetchResults :
         /\ fetched' = r
         /\ state' = IF r = "ok" THEN url ELSE "partial"
   /\ pc' = "ls_set"
   /\ UNCHANGED << call, b, artifact, url, model, quantizer, outcome >>
   /\ UNCHANGED parseVars

\* state = torch.hub.load_state_dict_from_url(url, ..., check_hash=True)
LoadStateFetch ==
   /\ pc = "ls_fetch"
   /\ events' = Append(events, "fetch")
   /\ \E r \in FetchResults :
         /\ fetched' = r
         /\ IF r = "ok"
            THEN /\ state' = url
                 /\ pc' = "ls_set"
                 /\ UNCHANGED outcome
            ELSE /\ Raise(r)
                 /\ UNCHANGED state
   /\ UNCHANGED << call, b, artifact, url, model, quantizer >>
   /\ UNCHANGED parseVars

\* LoadStateSet returning without the detach step
LoadStateSetSkipDetach ==
   /\ pc = "ls_set"
   /\ model' = [ model EXCEPT !.weights = state ]
   /\ events' = Append(events, "set_state")
   /\ pc' = "return"
   /\ UNCHANGED << call, b, artifact, url, fetched, state, quantizer, outcome >>
   /\ UNCHANGED parseVars

\* set_state(model, quantizer, state)
LoadStateSet ==
   /\ pc = "ls_set"
   /\ model' = [ model EXCEPT !.weights = state ]
   /\ events' = Append(events, "set_state")
   /\ pc' = IF quantizer.state # "none" THEN "ls_detach" ELSE "return"
   /\ UNCHANGED << call, b, artifact, url, fetched, state, quantizer, outcome >>
   /\ UNCHANGED parseVars

\* if quantizer: quantizer.detach()
LoadStateDetach ==
   /\ pc = "ls_detach"
   /\ quantizer' = [ quantizer EXCEPT !.state = "detached" ]
   /\ events' = Append(events, "detach")
   /\ pc' = "return"
   /\ UNCHANGED << call, b, artifact, url, fetched, state, model, outcome >>
   /\ UNCHANGED parseVars

\* return model
Return ==
   /\ pc = "return"
   /\ pc' = "done"
   /\ outcome' = "returned"
   /\ UNCHANGED << call, events >>
   /\ UNCHANGED loadVars
   /\ UNCHANGED parseVars

Next ==
   \/ CallGetModel
   \/ CallLoadPretrained
   \/ CallDemucs
   \/ CallTasnet
   \/ CallDemucsUnittest
   \/ CallParseRemoteFiles
   \/ ParseRead
   \/ ParseLine
   \/ ParseReturn
   \/ GetModelUnittest
   \/ GetModelRemote
   \/ GetModelNoDirectory
   \/ GetModelLocal
   \/ GetModelResolve
   \/ GetModelEval
   \/ LoadPretrainedDispatch
   \/ LoadPretrainedInvalid
   \/ DemucsRejectOptions
   \/ DemucsConstruct
   \/ DemucsRejectCombination
   \/ DemucsLoad
   \/ TasnetRejectOptions
   \/ TasnetConstruct
   \/ TasnetLoad
   \/ UnittestConstruct
   \/ LoadStateUrl
   \/ LoadStateFetch
   \/ LoadStateSet
   \/ LoadStateDetach
   \/ Return

Spec == Init /\ [][Next]_vars

(***************************************************************************)
(* Vocabulary of the properties.                                           *)
(***************************************************************************)
\* event e has happened
Has(e) == \E i \in 1..Len(events) : events[i] = e

\* how often event e has happened
Count(e) == Cardinality({i \in 1..Len(events) : events[i] = e})

\* the position of the first event e, 0 when it has not happened
Pos(e) ==
   IF Has(e) THEN CHOOSE i \in 1..Len(events) :
                     events[i] = e /\ \A j \in 1..(i - 1) : events[j] # e
   ELSE 0

\* the builder invocations so far
BuilderCalls == Count("call:demucs") + Count("call:tasnet")
                   + Count("call:demucs_unittest")

\* a catalog parse or a repository construction or lookup has happened
CatalogOrRepoTouched ==
   \/ Has("parse") \/ Has("RemoteRepo") \/ Has("LocalRepo")
   \/ Has("BagOnlyRepo") \/ Has("AnyModelRepo") \/ Has("repo_get_model")

Done == pc = "done"

(***************************************************************************)
(* C1.  get_model("demucs_unittest", repo) returns a freshly constructed   *)
(* model with no weights applied, and no catalog parse, repository         *)
(* construction or weight fetch happens at any point of the call.          *)
(***************************************************************************)
C1_UnittestFastPath ==
   (call.entry = "get_model" /\ call.name = "demucs_unittest") =>
      /\ ~CatalogOrRepoTouched
      /\ ~Has("fetch")
      /\ model.weights = ""
      /\ Done => (outcome = "returned" /\ model.arch # "none")

(***************************************************************************)
(* C2.  Whenever get_model returns a model, for the reserved name as for   *)
(* a name resolved through the repositories, the model is in evaluation    *)
(* mode.                                                                   *)
(***************************************************************************)
C2_ReturnedInEvalMode ==
   (call.entry = "get_model" /\ Done /\ outcome = "returned") =>
      model.evalMode

(***************************************************************************)
(* C3.  demucs(pretrained=True, ...) with two or more of extra, quantized, *)
(* hq ends in a configuration error.  As claimed: the error comes before   *)
(* any model instance, any quantizer and any fetch.                        *)
(***************************************************************************)
ConflictingOptions ==
   /\ b.fn = "demucs"
   /\ b.pretrained
   /\ \/ b.extra /\ b.quantized
      \/ b.extra /\ b.hq
      \/ b.quantized /\ b.hq

C3_ErrorBeforeAnyConstruction ==
   ConflictingOptions =>
      /\ ~Has("construct")
      /\ ~Has("quantizer")
      /\ ~Has("fetch")
      /\ Done => outcome = "ValueError"

\* C3 as amended: the call ends in the configuration error before any
\* quantizer is constructed and before any fetch; the one thing done before
\* the error is the construction of the model instance, which is never
\* returned and never has weights applied.
C3_ErrorBeforeQuantizerAndFetch ==
   ConflictingOptions =>
      /\ ~Has("quantizer")
      /\ ~Has("fetch")
      /\ quantizer.state = "none"
      /\ model.weights = ""
      /\ Done => /\ outcome = "ValueError"
                 /\ events = << "call:demucs", "construct" >>

C3_Witness ==
   /\ ConflictingOptions
   /\ b.quantized /\ b.hq
   /\ Done
   /\ outcome = "ValueError"

(***************************************************************************)
(* C4.  demucs(pretrained=False) with an option set, and                   *)
(* tasnet(pretrained=False, extra=True), end in a configuration error and  *)
(* never fetch; with pretrained=False and no option set the call returns   *)
(* a model without any fetch.                                              *)
(***************************************************************************)
OptionRequested ==
   \/ b.fn = "demucs" /\ (b.extra \/ b.quantized \/ b.hq)
   \/ b.fn = "tasnet" /\ b.extra

C4_NoUnpretrainedOptions ==
   (b.fn \in {"demucs", "tasnet"} /\ ~b.pretrained) =>
      /\ ~Has("fetch")
      /\ fetched = ""
      /\ model.weights = ""
      /\ Done => IF OptionRequested
                 THEN outcome = "ValueError" /\ model.arch = "none"
                 ELSE outcome = "returned" /\ model.arch # "none"

C4_Witness ==
   /\ b.fn = "demucs"
   /\ ~b.pretrained
   /\ b.hq
   /\ Done
   /\ outcome = "ValueError"

(***************************************************************************)
(* The manifest as the specification reads it.                             *)
(***************************************************************************)
Stripped(i) == Strip(lines[i])

CommentAt(i) == StartsWith(Stripped(i), "#")

RootAt(i) == ~CommentAt(i) /\ StartsWith(Stripped(i), "root:")

\* the non-comment, non-root lines
EntryLines == {i \in 1..Len(lines) : ~CommentAt(i) /\ ~RootAt(i)}

\* the part of the stripped line before its first '-'
ShortName(i) == SplitHead(Stripped(i), "-")

\* the path prefix set by the most recent root line before line i
PrefixAt(i) ==
   LET before == {j \in 1..(i - 1) : RootAt(j)}
   IN  IF before = {} THEN ""
       ELSE LET last == CHOOSE j \in before : \A k \in before : k <= j
            IN  Strip(SplitTail(Stripped(last), ":"))

\* the lines that repeat the short name of an earlier line
Repeats ==
   {j \in EntryLines : \E i \in EntryLines : i < j /\ ShortName(i) = ShortName(j)}

FirstRepeat == CHOOSE j \in Repeats : \A k \in Repeats : j <= k

ParseStarted == Len(lines) > 0

(***************************************************************************)
(* C5.  For a manifest whose entry lines have pairwise distinct short      *)
(* names the parse does not fail, and the mapping it returns has exactly   *)
(* one entry per non-comment, non-root line (blank lines included), each   *)
(* short name mapped to ROOT_URL + the prefix of the most recent preceding *)
(* root line + the stripped line.                                          *)
(***************************************************************************)
C5_CatalogOfUniqueManifest ==
   (ParseStarted /\ Repeats = {}) =>
      /\ outcome # "AssertionError"
      /\ Len(catalog) = 1 =>
            /\ DOMAIN catalog[1] = {ShortName(i) : i \in EntryLines}
            /\ Cardinality(DOMAIN catalog[1]) = Cardinality(EntryLines)
            /\ \A i \in EntryLines :
                  catalog[1][ShortName(i)]
                     = ROOT_URL \o PrefixAt(i) \o Stripped(i)

\* an entry before a root line, an entry after it, stripped on both sides
C5_Witness ==
   /\ lines = << "a-1", "root: m/", " b-1 " >>
   /\ Len(catalog) = 1
   /\ catalog[1]["a"] = "https://dl.fbaipublicfiles.com/demucs/mdx_final/a-1"
   /\ catalog[1]["b"] = "https://dl.fbaipublicfiles.com/demucs/mdx_final/m/b-1"

(***************************************************************************)
(* C9.  For a manifest in which two entry lines share a short name (two    *)
(* blank lines included) the parse fails at the second such line and       *)
(* returns no mapping; the earlier entry is never overwritten.             *)
(***************************************************************************)
C9_DuplicateIsFatal ==
   (ParseStarted /\ Repeats # {}) =>
      /\ Len(catalog) = 0
      /\ outcome # "returned"
      /\ idx <= FirstRepeat
      /\ \A i \in EntryLines :
            i < idx => models[ShortName(i)]
                          = ROOT_URL \o PrefixAt(i) \o Stripped(i)
      /\ Done => /\ outcome = "AssertionError"
                 /\ idx = FirstRepeat

\* two blank lines: the text "\n"
C9_Witness ==
   /\ lines = << "", "" >>
   /\ Done
   /\ outcome = "AssertionError"
   /\ idx = 2

(***************************************************************************)
(* C6.  For a name of the legacy table, a failed fetch (hash mismatch or   *)
(* transport error) ends the load in that very error; set_state and        *)
(* detach are never reached and the model is as it was before the call.    *)
(***************************************************************************)
FetchFailed == fetched \in {"hash_mismatch", "transport_error"}

C6_FailedFetchLeavesModelUntouched ==
   FetchFailed =>
      /\ artifact \in DOMAIN PRETRAINED_MODELS
      /\ Done
      /\ outcome = fetched
      /\ events[Len(events)] = "fetch"
      /\ ~Has("set_state")
      /\ ~Has("detach")
      /\ state = ""
      /\ model = [ arch |-> model.arch, channels |-> b.channels,
                   weights |-> "", evalMode |-> FALSE ]
      /\ quantizer.state = IF b.quantized THEN "attached" ELSE "none"

C6_Witness ==
   /\ fetched = "hash_mismatch"
   /\ artifact = "demucs_quantized"
   /\ Done
   /\ outcome = "hash_mismatch"

(***************************************************************************)
(* C7.  load_pretrained(name) invokes exactly one builder for each of the  *)
(* seven family names; for any other name it ends in an invalid-argument   *)
(* error without a builder call, a model or a fetch.  It never retries     *)
(* and never runs another family's builder.                                *)
(***************************************************************************)
SevenFamilies ==
   { "demucs", "demucs48_hq", "demucs_extra", "demucs_quantized",
     "tasnet", "tasnet_extra", "demucs_unittest" }

\* the builder function a family name belongs to
BuilderOf(name) ==
   IF name \in {"tasnet", "tasnet_extra"} THEN "tasnet"
   ELSE IF name = "demucs_unittest" THEN "demucs_unittest"
   ELSE "demucs"

C7_ExactlyOneBuilder ==
   call.entry = "load_pretrained" =>
      /\ BuilderCalls <= 1
      /\ Count("fetch") <= 1
      /\ Count("construct") <= 1
      /\ IF call.name \in SevenFamilies
         THEN /\ pc # "load_pretrained" =>
                    /\ BuilderCalls = 1
                    /\ Has("call:" \o BuilderOf(call.name))
                    /\ b.fn = BuilderOf(call.name)
              /\ Done => outcome # "ValueError"
         ELSE /\ BuilderCalls = 0
              /\ b.fn = "none"
              /\ model.arch = "none"
              /\ ~Has("construct")
              /\ ~Has("fetch")
              /\ Done => outcome = "ValueError"

C7_Witness ==
   /\ call.entry = "load_pretrained"
   /\ call.name = "mdx_extra_q"
   /\ Done
   /\ outcome = "ValueError"

LegacyKeys ==
   { "demucs", "demucs48_hq", "demucs_extra", "demucs_quantized",
     "tasnet", "tasnet_extra", "demucs_unittest" }

Derived == artifact # ""

C10_DerivedNameIsTheFamily ==
   /\ (call.entry = "load_pretrained" /\ call.name \in LegacyKeys) =>
         /\ Derived => artifact = call.name
         /\ Done => outcome \notin {"ValueError", "KeyError"}
   /\ (Derived /\ artifact \notin LegacyKeys) =>
         /\ ~Has("fetch")
         /\ fetched = ""
         /\ model.weights = ""
         /\ pc \in {"load_state", "done"}
         /\ Done => outcome = "KeyError"
   /\ (b.fn # "none" /\ model.weights # "") =>
         /\ artifact \in LegacyKeys
         /\ model.weights
               = ROOT \o artifact \o "-" \o PRETRAINED_MODELS[artifact] \o ".th"

C10_Witness ==
   /\ call.entry = "load_pretrained"
   /\ call.name = "demucs48_hq"
   /\ artifact = "demucs48_hq"
   /\ Done
   /\ outcome = "returned"

====
